---- MODULE Spec2Model ----
(***************************************************************************)
(* Model of the Stratasys filament calculator:                             *)
(*   BaseCode/F370Convert.py   - find_matching_column, process_f370_files  *)
(*   Example/J826Convert.py    - convert_j826_file                         *)
(*   Example/printCalculator.py - parse_material_cost, calculate_costs     *)
(* Text is modelled as sequences of one-character strings so that          *)
(* substring tests, replace, split, zfill and the regular expressions act  *)
(* on characters as they do in the code.                                   *)
(***************************************************************************)
EXTENDS Integers, Sequences, FiniteSets, TLC

VARIABLES
    \* find_matching_column called on its own
    columns, keywords, matched, mpc,
    \* F370Convert.py: the folder, the loop position and the combined frame
    folder, listing, fpos, file_name, df, combined_df, fpc, run, first_run,
    \* J826Convert.py: one call of convert_j826_file
    jlines, is_first_file, appended_file, output_df, jpc,
    \* printCalculator.py: parse_material_cost
    cost_lines, ppos, costs, ppc,
    \* printCalculator.py: calculate_costs
    material_costs, f370_data, j826_data, results, cidx, filament_fee, cpc

matchVars == <<columns, keywords, matched, mpc>>
f370Vars  == <<folder, listing, fpos, file_name, df, combined_df, fpc, run, first_run>>
j826Vars  == <<jlines, is_first_file, appended_file, output_df, jpc>>
parseVars == <<cost_lines, ppos, costs, ppc>>
costVars  == <<material_costs, f370_data, j826_data, results, cidx, filament_fee, cpc>>
vars == <<matchVars, f370Vars, j826Vars, parseVars, costVars>>

----------------------------------------------------------------------------
(* Bounds of the model *)

\* longest column list handed to find_matching_column on its own
MaxCols == 3

----------------------------------------------------------------------------
(* Text helpers: Python str methods on character sequences *)

\* str.lower(), character by character
Lower(s) ==
    LET UpperChars == <<"A","B","C","D","E","F","G","H","I","J","K","L","M",
                        "N","O","P","Q","R","S","T","U","V","W","X","Y","Z">>
        LowerChars == <<"a","b","c","d","e","f","g","h","i","j","k","l","m",
                        "n","o","p","q","r","s","t","u","v","w","x","y","z">>
        LowerChar(c) ==
            IF \E i \in 1..Len(UpperChars) : UpperChars[i] = c
            THEN LowerChars[CHOOSE i \in 1..Len(UpperChars) : UpperChars[i] = c]
            ELSE c
    IN [i \in 1..Len(s) |-> LowerChar(s[i])]

RECURSIVE LStrip(_)
LStrip(s) == IF s # <<>> /\ Head(s) = " " THEN LStrip(Tail(s)) ELSE s

RECURSIVE RStrip(_)
RStrip(s) ==
    IF s # <<>> /\ s[Len(s)] = " " THEN RStrip(SubSeq(s, 1, Len(s) - 1)) ELSE s

\* str.strip()
Strip(s) == RStrip(LStrip(s))

\* the substring t occurs in s at 1-based position i
OccursAt(t, s, i) ==
    /\ i >= 1
    /\ i + Len(t) - 1 <= Len(s)
    /\ SubSeq(s, i, i + Len(t) - 1) = t

\* Python's "t in s" on strings
Contains(t, s) == \E i \in 1..(Len(s) - Len(t) + 1) : OccursAt(t, s, i)

\* Python's None, where a column name or a text is expected
None == <<"<None>">>

----------------------------------------------------------------------------
(* F370Convert.py: find_matching_column *)

\* the synonym lists of lines 43-47: ["Company", "CompanyName"],
\* ["Print Time", "h:mm"], ["Support", "QSR"], ["ABS"], ["TPU"]
CompanyKeywords ==
    << <<"C","o","m","p","a","n","y">>, <<"C","o","m","p","a","n","y","N","a","m","e">> >>
PrintTimeKeywords == << <<"P","r","i","n","t"," ","T","i","m","e">>, <<"h",":","m","m">> >>
SupportKeywords == << <<"S","u","p","p","o","r","t">>, <<"Q","S","R">> >>
ABSKeywords == << <<"A","B","S">> >>
TPUKeywords == << <<"T","P","U">> >>

\* the canonical column names the normalizer writes
colCompanyName == <<"C","o","m","p","a","n","y"," ","N","a","m","e">>
colPrintTime == <<"P","r","i","n","t"," ","T","i","m","e">>
colQSRsupport == <<"Q","S","R"," ","s","u","p","p","o","r","t">>
colPCABSBLK == <<"P","C","-","A","B","S"," ","B","L","K">>
colTPU92A == <<"T","P","U"," ","9","2","A"," ","-"," ","B","l","a","c","k">>

\* column names met in source files
colCompany == <<"C","o","m","p","a","n","y">>
colABSincm3 == <<"A","B","S"," ","i","n"," ","c","m","3">>
colPrintTimeHmm == <<"P","r","i","n","t"," ","T","i","m","e"," ","(","h",":","m","m",")">>
colSupportLower == <<"s","u","p","p","o","r","t"," ","c","m","3">>

\* line 11: keyword.lower() in col.lower().strip()
KeywordMatches(keyword, col) == Contains(Lower(keyword), Strip(Lower(col)))

\* keyword-major scan: the first keyword of the list that some column holds
\* decides, and the first column holding it is returned
RECURSIVE FindByKeywordFrom(_, _, _)
FindByKeywordFrom(cols, kws, k) ==
    IF k > Len(kws) THEN None
    ELSE IF \E i \in 1..Len(cols) : KeywordMatches(kws[k], cols[i])
         THEN cols[CHOOSE i \in 1..Len(cols) :
                      /\ KeywordMatches(kws[k], cols[i])
                      /\ \A j \in 1..(i - 1) : ~KeywordMatches(kws[k], cols[j])]
         ELSE FindByKeywordFrom(cols, kws, k + 1)

find_matching_column_keyword_major(cols, kws) == FindByKeywordFrom(cols, kws, 1)

\* lines 9-13: the outer loop is over the columns, the inner over the keywords
RECURSIVE FindFrom(_, _, _)
FindFrom(cols, kws, i) ==
    IF i > Len(cols) THEN None
    ELSE IF \E k \in 1..Len(kws) : KeywordMatches(kws[k], cols[i])
         THEN cols[i]
         ELSE FindFrom(cols, kws, i + 1)

find_matching_column(cols, kws) == FindFrom(cols, kws, 1)

\* sequences of distinct elements of S, of length at most n
DistinctSeqs(S, n) ==
    UNION {{s \in [1..k -> S] : \A i, j \in 1..k : i # j => s[i] # s[j]} : k \in 0..n}

----------------------------------------------------------------------------
(* F370Convert.py: data frames and process_f370_files *)

\* most files a folder holds before the first run
MaxFiles == 2

\* cells of a parsed CSV: a missing value, a number (in thousandths), a text
NaN == [nan |-> TRUE]
Num(n) == [num |-> n]
Str(s) == [str |-> s]

\* pd.DataFrame(): no column, no row
EmptyFrame == [cols |-> <<>>, rows |-> <<>>]

\* the local df before a file has been read
NoFrame == [cols |-> <<None>>, rows |-> <<>>]

HasColumn(d, name) == \E i \in 1..Len(d.cols) : d.cols[i] = name

ColIndex(d, name) == CHOOSE i \in 1..Len(d.cols) : d.cols[i] = name

\* df[name]: the cells of one column, top to bottom
GetColumn(d, name) == [r \in 1..Len(d.rows) |-> d.rows[r][ColIndex(d, name)]]

\* df[name] = series: overwrite the column when it exists, else add it last
SetColumn(d, name, series) ==
    IF HasColumn(d, name)
    THEN [cols |-> d.cols,
          rows |-> [r \in 1..Len(d.rows) |->
                       [d.rows[r] EXCEPT ![ColIndex(d, name)] = series[r]]]]
    ELSE [cols |-> Append(d.cols, name),
          rows |-> [r \in 1..Len(d.rows) |-> Append(d.rows[r], series[r])]]

\* df[name] = 0.0
ConstSeries(d, v) == [r \in 1..Len(d.rows) |-> v]

\* series.fillna(0)
Fillna(series, v) == [r \in 1..Len(series) |-> IF series[r] = NaN THEN v ELSE series[r]]

\* line 75
required_columns == <<colPrintTime, colPCABSBLK, colTPU92A, colQSRsupport, colCompanyName>>

\* lines 68-72: the dict literal keeps the last value given for a key
RenameOf(c, company_name_col, print_time_col, support_col) ==
    IF c = support_col THEN colQSRsupport
    ELSE IF c = print_time_col THEN colPrintTime
    ELSE IF c = company_name_col THEN colCompanyName
    ELSE c

Rename(d, company_name_col, print_time_col, support_col) ==
    [cols |-> [i \in 1..Len(d.cols) |->
                  RenameOf(d.cols[i], company_name_col, print_time_col, support_col)],
     rows |-> d.rows]

\* line 76: df[required_columns] raises KeyError when a label is missing
SelectRaises(d) == \E i \in 1..Len(required_columns) : ~HasColumn(d, required_columns[i])

Select(d) ==
    [cols |-> required_columns,
     rows |-> [r \in 1..Len(d.rows) |->
                  [i \in 1..Len(required_columns) |->
                      d.rows[r][ColIndex(d, required_columns[i])]]]]

\* lines 43-47 on the columns as read
CompanyCol(d) == find_matching_column(d.cols, CompanyKeywords)
PrintTimeCol(d) == find_matching_column(d.cols, PrintTimeKeywords)
SupportCol(d) == find_matching_column(d.cols, SupportKeywords)
AbsCol(d) == find_matching_column(d.cols, ABSKeywords)
TpuCol(d) == find_matching_column(d.cols, TPUKeywords)

\* lines 57-65, in the order of the code: both canonical columns are set to
\* 0.0 first, then the detected columns are copied
FillMaterials(d) ==
    LET d1 == SetColumn(d, colPCABSBLK, ConstSeries(d, Num(0)))
        d2 == SetColumn(d1, colTPU92A, ConstSeries(d1, Num(0)))
        d3 == IF AbsCol(d) # None
              THEN SetColumn(d2, colPCABSBLK, Fillna(GetColumn(d2, AbsCol(d)), Num(0)))
              ELSE d2
        d4 == IF TpuCol(d) # None
              THEN SetColumn(d3, colTPU92A, Fillna(GetColumn(d3, TpuCol(d)), Num(0)))
              ELSE d3
    IN d4

\* lines 57-72: the frame just before the selection of line 76
Renamed(d) == Rename(FillMaterials(d), CompanyCol(d), PrintTimeCol(d), SupportCol(d))

\* line 79: pd.concat([combined_df, df], ignore_index=True), both frames
\* either empty or with the required columns
Concat(a, b) == IF a.cols = <<>> THEN b ELSE [cols |-> a.cols, rows |-> a.rows \o b.rows]

\* line 31: "_Print_F370" in file_name and file_name.endswith(".csv")
IsF370Name(name) ==
    /\ Contains(<<"_","P","r","i","n","t","_","F","3","7","0">>, name)
    /\ Len(name) >= 4 /\ SubSeq(name, Len(name) - 3, Len(name)) = <<".","c","s","v">>

\* line 92: the output file "Appended_Print_F370.csv" lies in the input folder
AppendedF370Name ==
    <<"A","p","p","e","n","d","e","d","_","P","r","i","n","t","_","F","3","7","0",
      ".","c","s","v">>

\* the folders of at most n files.  A file is its name, whether pd.read_csv
\* succeeds on it, and the frame read.  The names are "A_Print_F370.csv",
\* "B_Print_F370.csv" and "notes.txt".
Folders(n) ==
    LET NamePool ==
            {<<"A","_","P","r","i","n","t","_","F","3","7","0",".","c","s","v">>,
             <<"B","_","P","r","i","n","t","_","F","3","7","0",".","c","s","v">>,
             <<"n","o","t","e","s",".","t","x","t">>}
        dfABS ==
            [cols |-> <<colCompany, colPrintTimeHmm, colABSincm3, colSupportLower>>,
             rows |-> << <<Str("Acme"), Str("1:30"), Num(5000), Num(2000)>>,
                         <<Str("Bolt"), Str("0:45"), NaN, Num(1000)>> >>]
        \* columns "h:mm", " COMPANY ", "QSR", "TPU in cm3"
        dfTPU ==
            [cols |-> << <<"h",":","m","m">>, <<" ","C","O","M","P","A","N","Y"," ">>,
                         <<"Q","S","R">>, <<"T","P","U"," ","i","n"," ","c","m","3">> >>,
             rows |-> << <<Str("2:10"), Str("Cog"), Num(3000), Num(7000)>> >>]
        dfPlain ==
            [cols |-> <<colCompany, colPrintTimeHmm, colQSRsupport, <<"M","o","d","e","l">> >>,
             rows |-> << <<Str("Dune"), Str("0:20"), NaN, Str("bracket")>> >>]
        \* the ABS column already bears the canonical name
        dfCanonicalABS ==
            [cols |-> <<colCompany, colPrintTimeHmm, colPCABSBLK, colSupportLower>>,
             rows |-> << <<Str("Elm"), Str("3:00"), Num(4000), Num(1000)>> >>]
        dfNoCompany ==
            [cols |-> <<colPrintTimeHmm, colSupportLower, colABSincm3>>,
             rows |-> << <<Str("1:00"), Num(1000), Num(9000)>> >>]
        dfNoSupport ==
            [cols |-> <<colCompany, colPrintTimeHmm, colABSincm3>>,
             rows |-> << <<Str("Fir"), Str("1:00"), Num(9000)>> >>]
        \* one column, "Company Print Time", holds a company and a print-time
        \* keyword
        dfCollision ==
            [cols |-> << <<"C","o","m","p","a","n","y"," ","P","r","i","n","t"," ",
                           "T","i","m","e">>, colSupportLower>>,
             rows |-> << <<Str("Gum"), Num(2000)>> >>]
        FramePool ==
            {dfABS, dfTPU, dfPlain, dfCanonicalABS, dfNoCompany, dfNoSupport, dfCollision}
        FileContents ==
            {[readable |-> TRUE, frame |-> d] : d \in FramePool}
                \cup {[readable |-> FALSE, frame |-> EmptyFrame]}
    IN UNION {[names -> FileContents] :
                 names \in {N \in SUBSET NamePool : Cardinality(N) <= n}}

\* os.listdir: the names of the folder in an arbitrary order
Listings(f) ==
    {l \in [1..Cardinality(DOMAIN f) -> DOMAIN f] :
        \A i, j \in 1..Len(l) : i # j => l[i] # l[j]}

\* to_csv then read_csv: an empty text is read back as missing
CsvFrame(d) ==
    [cols |-> d.cols,
     rows |-> [r \in 1..Len(d.rows) |->
                  [i \in 1..Len(d.rows[r]) |->
                      IF d.rows[r][i] = Str("") THEN NaN ELSE d.rows[r][i]]]]

\* lines 82-83: the folder after combined_df.to_csv(output_file)
WithOutput(f, d) ==
    [n \in (DOMAIN f) \cup {AppendedF370Name} |->
        IF n = AppendedF370Name THEN [readable |-> TRUE, frame |-> CsvFrame(d)] ELSE f[n]]

CurrentName == listing[fpos]
CurrentFile == folder[listing[fpos]]

\* line 27 and line 30: a run starts with an empty frame and one listing
StartRun(l) ==
    /\ listing' = l
    /\ fpos' = 1
    /\ file_name' = None
    /\ df' = NoFrame
    /\ combined_df' = EmptyFrame
    /\ fpc' = "loop"

\* line 31: a name that is not an F370 job file is passed over
IgnoreFile ==
    /\ fpc = "loop" /\ fpos <= Len(listing)
    /\ ~IsF370Name(CurrentName)
    /\ fpos' = fpos + 1
    /\ UNCHANGED <<folder, listing, file_name, df, combined_df, fpc, run, first_run,
                   matchVars, j826Vars, parseVars, costVars>>

\* lines 36-40: read_csv raises, the file is reported and skipped
ReadError ==
    /\ fpc = "loop" /\ fpos <= Len(listing)
    /\ IsF370Name(CurrentName)
    /\ ~CurrentFile.readable
    /\ fpos' = fpos + 1
    /\ file_name' = CurrentName
    /\ UNCHANGED <<folder, listing, df, combined_df, fpc, run, first_run,
                   matchVars, j826Vars, parseVars, costVars>>

\* lines 49-51
SkipNoCompany ==
    /\ fpc = "loop" /\ fpos <= Len(listing)
    /\ IsF370Name(CurrentName)
    /\ CurrentFile.readable
    /\ CompanyCol(CurrentFile.frame) = None
    /\ fpos' = fpos + 1
    /\ file_name' = CurrentName
    /\ df' = CurrentFile.frame
    /\ UNCHANGED <<folder, listing, combined_df, fpc, run, first_run,
                   matchVars, j826Vars, parseVars, costVars>>

\* lines 52-55
SkipMissingCritical ==
    /\ fpc = "loop" /\ fpos <= Len(listing)
    /\ IsF370Name(CurrentName)
    /\ CurrentFile.readable
    /\ CompanyCol(CurrentFile.frame) # None
    /\ PrintTimeCol(CurrentFile.frame) = None \/ SupportCol(CurrentFile.frame) = None
    /\ fpos' = fpos + 1
    /\ file_name' = CurrentName
    /\ df' = CurrentFile.frame
    /\ UNCHANGED <<folder, listing, combined_df, fpc, run, first_run,
                   matchVars, j826Vars, parseVars, costVars>>

Detected(d) ==
    /\ CompanyCol(d) # None
    /\ PrintTimeCol(d) # None
    /\ SupportCol(d) # None

\* lines 57-79: the file is normalized and its rows are appended
AcceptFile ==
    /\ fpc = "loop" /\ fpos <= Len(listing)
    /\ IsF370Name(CurrentName)
    /\ CurrentFile.readable
    /\ Detected(CurrentFile.frame)
    /\ ~SelectRaises(Renamed(CurrentFile.frame))
    /\ df' = Select(Renamed(CurrentFile.frame))
    /\ combined_df' = Concat(combined_df, df')
    /\ fpos' = fpos + 1
    /\ file_name' = CurrentName
    /\ UNCHANGED <<folder, listing, fpc, run, first_run, matchVars, j826Vars, parseVars, costVars>>

\* line 76 raises KeyError: nothing in process_f370_files catches it, the
\* call ends without a return value and without writing the output file
RaiseKeyError ==
    /\ fpc = "loop" /\ fpos <= Len(listing)
    /\ IsF370Name(CurrentName)
    /\ CurrentFile.readable
    /\ Detected(CurrentFile.frame)
    /\ SelectRaises(Renamed(CurrentFile.frame))
    /\ df' = Renamed(CurrentFile.frame)
    /\ file_name' = CurrentName
    /\ fpc' = "raised"
    /\ UNCHANGED <<folder, listing, fpos, combined_df, run, first_run,
                   matchVars, j826Vars, parseVars, costVars>>

\* lines 81-88: the combined frame is saved when it has rows, and returned
FinishRun ==
    /\ fpc = "loop" /\ fpos > Len(listing)
    /\ folder' = IF combined_df.rows # <<>> THEN WithOutput(folder, combined_df) ELSE folder
    /\ fpc' = "done"
    /\ first_run' = IF run = 1 THEN combined_df ELSE first_run
    /\ UNCHANGED <<listing, fpos, file_name, df, combined_df, run,
                   matchVars, j826Vars, parseVars, costVars>>

\* lines 90-98 once more: the script is run a second time on the same folder
RunAgain ==
    /\ fpc = "done" /\ run = 1
    /\ run' = 2
    /\ \E l \in Listings(folder) : StartRun(l)
    /\ UNCHANGED <<folder, first_run, matchVars, j826Vars, parseVars, costVars>>

----------------------------------------------------------------------------
(* J826Convert.py: convert_j826_file *)

\* most label/value pairs of a J826 file
MaxPairs == 2

\* a text cell of the 'Key' column, as a sequence of characters
Txt(s) == [txt |-> s]

\* a cell of the 'Key' column that holds no text: pandas reads it as NaN
MissingCell == Txt(<<"<NaN>">>)

Digits == <<"0","1","2","3","4","5","6","7","8","9">>
IsDigit(c) == \E i \in 1..Len(Digits) : Digits[i] = c

\* the number a run of digits denotes
RECURSIVE DigitsValue(_)
DigitsValue(s) ==
    IF s = <<>> THEN 0
    ELSE 10 * DigitsValue(SubSeq(s, 1, Len(s) - 1))
            + (CHOOSE i \in 1..Len(Digits) : Digits[i] = s[Len(s)]) - 1

\* str.replace(old, new) for a one-character old
RECURSIVE Replace(_, _, _)
Replace(s, old, new) ==
    IF s = <<>> THEN <<>>
    ELSE (IF Head(s) = old THEN new ELSE <<Head(s)>>) \o Replace(Tail(s), old, new)

\* str.split(sep) for a one-character sep: the list of the parts
RECURSIVE Split(_, _)
Split(s, sep) ==
    IF \E i \in 1..Len(s) : s[i] = sep
    THEN LET i == CHOOSE k \in 1..Len(s) : s[k] = sep /\ \A j \in 1..(k - 1) : s[j] # sep
         IN <<SubSeq(s, 1, i - 1)>> \o Split(SubSeq(s, i + 1, Len(s)), sep)
    ELSE <<s>>

\* str.zfill(width): zeros go after a leading sign; a text already as wide as
\* width, whatever its characters, is returned as it is
Zfill(s, width) ==
    LET Zeros(n) == [i \in 1..n |-> "0"]
    IN
    IF Len(s) >= width THEN s
    ELSE IF s # <<>> /\ Head(s) \in {"+", "-"}
         THEN <<Head(s)>> \o Zeros(width - Len(s)) \o Tail(s)
         ELSE Zeros(width - Len(s)) \o s

lblPrintTime == <<"P","r","i","n","t"," ","T","i","m","e">>
lblDraftGrey == <<"D","r","a","f","t","G","r","e","y"," ","(","g",")">>
lblVeroUltraWhite == <<"V","e","r","o","U","l","t","r","a","W","h","i","t","e"," ","(","g",")">>
lblVeroBlackPlus == <<"V","e","r","o","B","l","a","c","k","P","l","u","s"," ","(","g",")">>
lblSUP706 == <<"S","U","P","7","0","6"," ","(","g",")">>
UnknownCompany == <<"U","n","k","n","o","w","n"," ","C","o","m","p","a","n","y">>
ZeroTime == <<"0",":","0","0">>

\* lines 17-22: row 15 of the first column, or the literal when the row is
\* absent or the cell is missing
CompanyName(lines) ==
    IF Len(lines) < 15 THEN UnknownCompany
    ELSE IF lines[15] = MissingCell THEN UnknownCompany
    ELSE Strip(lines[15].txt)

\* lines 25-27: the rows at even offsets are keys, those at odd offsets are
\* values; zip stops at the shorter list
PairCount(lines) == Len(lines) \div 2
KeyAt(lines, i) == lines[2 * i - 1]
ValueAt(lines, i) == lines[2 * i]

HasKey(lines, label) == \E i \in 1..PairCount(lines) : KeyAt(lines, i) = Txt(label)

\* dict(zip(keys, values)): a later pair replaces an earlier one of its key
LastPair(lines, label) ==
    CHOOSE i \in 1..PairCount(lines) :
        /\ KeyAt(lines, i) = Txt(label)
        /\ \A j \in (i + 1)..PairCount(lines) : KeyAt(lines, j) # Txt(label)

\* data.get(label, default)
Get(lines, label, default) ==
    IF HasKey(lines, label) THEN ValueAt(lines, LastPair(lines, label)) ELSE Txt(default)

\* the reading of a decimal text by float(): optional sign, digits with at
\* most one point and at least one digit.  Exponents, underscores and "inf"
\* are outside the texts of the pool.
Unsigned(s) == IF s # <<>> /\ Head(s) \in {"+", "-"} THEN Tail(s) ELSE s
IsDecimal(s) ==
    LET u == Unsigned(Strip(s))
    IN /\ \A i \in 1..Len(u) : IsDigit(u[i]) \/ u[i] = "."
       /\ Cardinality({i \in 1..Len(u) : u[i] = "."}) <= 1
       /\ \E i \in 1..Len(u) : IsDigit(u[i])
IsNanText(s) == Lower(Unsigned(Strip(s))) = <<"n","a","n">>

\* the value of a decimal text, in thousandths
RECURSIVE Pow10(_)
Pow10(n) == IF n = 0 THEN 1 ELSE 10 * Pow10(n - 1)
DecimalValue(s) ==
    LET u == Unsigned(Strip(s))
        parts == Split(u, ".")
        whole == DigitsValue(parts[1])
        frac == IF Len(parts) > 1
                THEN SubSeq(parts[2], 1, IF Len(parts[2]) < 3 THEN Len(parts[2]) ELSE 3)
                ELSE <<>>
        milli == whole * 1000 + DigitsValue(frac) * Pow10(3 - Len(frac))
    IN IF Strip(s) # <<>> /\ Head(Strip(s)) = "-" THEN 0 - milli ELSE milli

\* float(value): a number, NaN for "nan", or ValueError
FloatRaises(s) == ~IsDecimal(s) /\ ~IsNanText(s)
Float(s) == IF IsNanText(s) THEN NaN ELSE Num(DecimalValue(s))

\* lines 37-41
safe_float(s) == IF FloatRaises(s) THEN Num(0) ELSE Float(s)

\* lines 49-53
format_time(print_time) ==
    IF Contains(<<"h">>, print_time) /\ Contains(<<"m">>, print_time)
    THEN LET print_time_split == Split(Replace(Replace(print_time, "h", <<":">>), "m", <<>>), ":")
         IN print_time_split[1] \o <<":">> \o Zfill(print_time_split[2], 2)
    ELSE ZeroTime

\* lines 30-34: the five cells looked up, in the order of the code
Lookups(lines) ==
    << Get(lines, lblPrintTime, <<"0","h"," ","0","m">>),
       Get(lines, lblDraftGrey, <<"0">>),
       Get(lines, lblVeroUltraWhite, <<"0">>),
       Get(lines, lblVeroBlackPlus, <<"0">>),
       Get(lines, lblSUP706, <<"0">>) >>

\* .strip() raises AttributeError on a missing value, which pandas holds as
\* the float NaN
ConvertRaises(lines) == \E i \in 1..5 : Lookups(lines)[i] = MissingCell

\* lines 56-63: the one-row frame
OutputRow(lines) ==
    [print_time |-> format_time(Strip(Lookups(lines)[1].txt)),
     draft_grey |-> safe_float(Strip(Lookups(lines)[2].txt)),
     vero_ultra_white |-> safe_float(Strip(Lookups(lines)[3].txt)),
     vero_black_plus |-> safe_float(Strip(Lookups(lines)[4].txt)),
     sup706 |-> safe_float(Strip(Lookups(lines)[5].txt)),
     company_name |-> CompanyName(lines)]

\* the output file: whether it exists, and its rows below the header
NoFile == [exists |-> FALSE, rows |-> <<>>]
FileOf(rows) == [exists |-> TRUE, rows |-> rows]

\* lines 65-69: append without header to an existing file unless this is the
\* first file, else write the file anew
Saved(file, is_first, row) ==
    IF file.exists /\ ~is_first THEN FileOf(Append(file.rows, row)) ELSE FileOf(<<row>>)

\* the 'Key' column of a file of k label/value pairs.  The labels are the five
\* the code looks up and "Tray"; the values are "3h 5m", "3h 55m", "12h 0m",
\* "45m", "ham", "12.5", "-5", "abc", " 7 " and a missing cell.
RECURSIVE PairLines(_)
PairLines(k) ==
    LET LabelPool ==
            {lblPrintTime, lblDraftGrey, lblVeroUltraWhite, lblVeroBlackPlus, lblSUP706,
             <<"T","r","a","y">>}
        ValuePool ==
            {<<"3","h"," ","5","m">>, <<"3","h"," ","5","5","m">>,
             <<"1","2","h"," ","0","m">>, <<"4","5","m">>, <<"h","a","m">>,
             <<"1","2",".","5">>, <<"-","5">>, <<"a","b","c">>, <<" ","7"," ">>}
        ValueCells == {Txt(v) : v \in ValuePool} \cup {MissingCell}
    IN IF k = 0 THEN {<<>>}
       ELSE {p \o <<Txt(l), v>> : p \in PairLines(k - 1), l \in LabelPool, v \in ValueCells}

\* files of at most n pairs, with or without a last label that has no value
\* line
KeyColumns(n) ==
    LET paired == UNION {PairLines(k) : k \in 0..n}
    IN paired \cup {p \o <<Txt(lblSUP706)>> : p \in paired}

\* lines 30-34 raise AttributeError: the call ends, nothing is written
ConvertRaise ==
    /\ jpc = "call"
    /\ ConvertRaises(jlines)
    /\ jpc' = "raised"
    /\ UNCHANGED <<jlines, is_first_file, appended_file, output_df,
                   matchVars, f370Vars, parseVars, costVars>>

\* lines 13-71
ConvertReturn ==
    /\ jpc = "call"
    /\ ~ConvertRaises(jlines)
    /\ output_df' = <<OutputRow(jlines)>>
    /\ appended_file' = Saved(appended_file, is_first_file, OutputRow(jlines))
    /\ jpc' = "returned"
    /\ UNCHANGED <<jlines, is_first_file, matchVars, f370Vars, parseVars, costVars>>

----------------------------------------------------------------------------
(* printCalculator.py: parse_material_cost *)

\* most lines of a price file
MaxLines == 2

Sep == <<";"," ">>
SepDollar == <<";"," ","$">>

\* Python's None as a reference volume
NoneValue == [none |-> TRUE]

\* line 21: the places (i1, i2, i3) where "; ", "; " and "; $" may stand in a
\* match of (.*?); (.*?); (.*?); \$(.*)$
MatchPlaces(s) ==
    LET SepPlaces == {i \in 1..Len(s) : OccursAt(Sep, s, i)}
        SepDollarPlaces == {i \in 1..Len(s) : OccursAt(SepDollar, s, i)}
    IN {p \in SepPlaces \X SepPlaces \X SepDollarPlaces :
           /\ p[2] >= p[1] + 2
           /\ p[3] >= p[2] + 2}

Matches(s) == MatchPlaces(s) # {}

\* the lazy groups take the first place that lets the rest match
MatchPlace(s) ==
    LET LexLess(p, q) ==
            \/ p[1] < q[1]
            \/ p[1] = q[1] /\ p[2] < q[2]
            \/ p[1] = q[1] /\ p[2] = q[2] /\ p[3] <= q[3]
    IN CHOOSE p \in MatchPlaces(s) : \A q \in MatchPlaces(s) : LexLess(p, q)

\* line 23: match.groups()
Groups(s) ==
    LET p == MatchPlace(s)
    IN [printer |-> SubSeq(s, 1, p[1] - 1),
        material |-> SubSeq(s, p[1] + 2, p[2] - 1),
        volume |-> SubSeq(s, p[2] + 2, p[3] - 1),
        cost |-> SubSeq(s, p[3] + 3, Len(s))]

\* line 24: re.sub(r"[^\d.]", "", volume) keeps every digit and every point
RECURSIVE DigitsAndPoints(_)
DigitsAndPoints(s) ==
    IF s = <<>> THEN <<>>
    ELSE (IF IsDigit(Head(s)) \/ Head(s) = "." THEN <<Head(s)>> ELSE <<>>)
            \o DigitsAndPoints(Tail(s))

\* line 26: cost.replace(",", "")
WithoutCommas(s) == Replace(s, ",", <<>>)

\* lines 25-26 raise ValueError when float() cannot read the text
EntryRaises(s) ==
    \/ DigitsAndPoints(Groups(s).volume) # <<>> /\ FloatRaises(DigitsAndPoints(Groups(s).volume))
    \/ FloatRaises(WithoutCommas(Groups(s).cost))

EntryKey(s) == <<Strip(Groups(s).printer), Strip(Groups(s).material)>>

\* lines 24-30
Entry(s) ==
    [volume |-> IF DigitsAndPoints(Groups(s).volume) = <<>>
                THEN NoneValue
                ELSE Float(DigitsAndPoints(Groups(s).volume)),
     cost |-> Float(WithoutCommas(Groups(s).cost))]

\* costs[key] = entry
Put(table, key, entry) ==
    [k \in (DOMAIN table) \cup {key} |-> IF k = key THEN entry ELSE table[k]]

\* line 18
IsSkipped(line) == Contains(<<"*","*">>, line) \/ Strip(line) = <<>>

prF370 == <<"F","3","7","0">>
prJ826 == <<"J","8","2","6">>
matPCABSBLK == <<"P","C","-","A","B","S"," ","B","L","K">>
matTPU92A == <<"T","P","U"," ","9","2","A"," ","-"," ","B","l","a","c","k">>
matQSRsupport == <<"Q","S","R"," ","s","u","p","p","o","r","t">>
matDraftGrey == <<"D","r","a","f","t","G","r","e","y">>
matVeroUltraWhite == <<"V","e","r","o","U","l","t","r","a","W","h","i","t","e">>
matVeroBlackPlus == <<"V","e","r","o","B","l","a","c","k","P","l","u","s">>
matSUP706 == <<"S","U","P","7","0","6">>

\* "<printer>; <material>; <N> <unit>; $<cost>", kept with the parts it was
\* written from; the parser reads the text only
PriceLine(printer, material, n, unit, cost) ==
    [text |-> printer \o Sep \o material \o Sep \o n
                 \o (IF unit = <<>> THEN <<>> ELSE <<" ">> \o unit) \o SepDollar \o cost,
     priced |-> TRUE, printer |-> printer, material |-> material,
     n |-> n, unit |-> unit, cost |-> cost]

OtherLine(text) ==
    [text |-> text, priced |-> FALSE, printer |-> <<>>, material |-> <<>>,
     n |-> <<>>, unit |-> <<>>, cost |-> <<>>]

\* the price files of at most n lines.  The priced lines are written for
\* (F370, PC-ABS BLK) and (J826, DraftGrey) with the volumes "1000 cm3",
\* "1000 g", "1000", "2.5 cm3", "2.5 g" and none, and the costs "100.50",
\* "1,250" and "50".  The other lines are a "**" comment, a blank line, a note
\* and a line whose cost is "TBD".
PriceFiles(n) ==
    LET n1000 == <<"1","0","0","0">>
        n2p5 == <<"2",".","5">>
        unitCm3 == <<"c","m","3">>
        unitG == <<"g">>
        PriceLines ==
            {PriceLine(k[1], k[2], v[1], v[2], c) :
                k \in {<<prF370, matPCABSBLK>>, <<prJ826, matDraftGrey>>},
                v \in {<<n1000, unitCm3>>, <<n1000, unitG>>, <<n1000, <<>> >>,
                       <<n2p5, unitCm3>>, <<n2p5, unitG>>, << <<>>, <<>> >>},
                c \in {<<"1","0","0",".","5","0">>, <<"1",",","2","5","0">>, <<"5","0">>}}
        lineComment ==
            <<"*","*"," ","F","3","7","0"," ","p","r","i","c","e","s"," ","*","*">>
        lineNote ==
            <<"p","r","i","c","e","s"," ","a","s"," ","o","f"," ","M","a","r","c","h",
              ";"," ","a","s","k"," ","s","a","l","e","s">>
        lineTBD ==
            <<"F","3","7","0",";"," ","Q","S","R"," ","s","u","p","p","o","r","t",
              ";"," ","5","0","0"," ","g",";"," ","$","T","B","D">>
        LinePool ==
            PriceLines \cup {OtherLine(lineComment), OtherLine(<<>>), OtherLine(lineNote),
                             OtherLine(lineTBD)}
    IN UNION {[1..k -> LinePool] : k \in 0..n}

CurrentLine == cost_lines[ppos].text

\* lines 18-19: a comment or blank line
SkipLine ==
    /\ ppc = "loop" /\ ppos <= Len(cost_lines)
    /\ IsSkipped(CurrentLine)
    /\ ppos' = ppos + 1
    /\ UNCHANGED <<cost_lines, costs, ppc, matchVars, f370Vars, j826Vars, costVars>>

\* lines 21-22: the line does not match and is passed over
IgnoreLine ==
    /\ ppc = "loop" /\ ppos <= Len(cost_lines)
    /\ ~IsSkipped(CurrentLine)
    /\ ~Matches(Strip(CurrentLine))
    /\ ppos' = ppos + 1
    /\ UNCHANGED <<cost_lines, costs, ppc, matchVars, f370Vars, j826Vars, costVars>>

\* lines 23-30
StoreEntry ==
    /\ ppc = "loop" /\ ppos <= Len(cost_lines)
    /\ ~IsSkipped(CurrentLine)
    /\ Matches(Strip(CurrentLine))
    /\ ~EntryRaises(Strip(CurrentLine))
    /\ costs' = Put(costs, EntryKey(Strip(CurrentLine)), Entry(Strip(CurrentLine)))
    /\ ppos' = ppos + 1
    /\ UNCHANGED <<cost_lines, ppc, matchVars, f370Vars, j826Vars, costVars>>

\* lines 25-26 raise ValueError, which nothing catches
ParseRaise ==
    /\ ppc = "loop" /\ ppos <= Len(cost_lines)
    /\ ~IsSkipped(CurrentLine)
    /\ Matches(Strip(CurrentLine))
    /\ EntryRaises(Strip(CurrentLine))
    /\ ppc' = "raised"
    /\ UNCHANGED <<cost_lines, ppos, costs, matchVars, f370Vars, j826Vars, costVars>>

\* line 31
ParseReturn ==
    /\ ppc = "loop" /\ ppos > Len(cost_lines)
    /\ ppc' = "done"
    /\ UNCHANGED <<cost_lines, ppos, costs, matchVars, f370Vars, j826Vars, costVars>>

----------------------------------------------------------------------------
(* printCalculator.py: calculate_costs *)

\* most rows of each canonical dataset
MaxJobs == 2

\* exact fractions n/d, d > 0, in lowest terms, for the fee arithmetic
RECURSIVE Gcd(_, _)
Gcd(a, b) == IF b = 0 THEN a ELSE Gcd(b, a % b)
Rat(n, d) ==
    LET Abs(a) == IF a < 0 THEN 0 - a ELSE a
        g == Gcd(Abs(n), Abs(d))
        s == IF d < 0 THEN 0 - 1 ELSE 1
    IN [n |-> (s * n) \div g, d |-> (s * d) \div g]
RatAdd(a, b) == Rat(a.n * b.d + b.n * a.d, a.d * b.d)
RatMul(a, b) == Rat(a.n * b.n, a.d * b.d)
RatZero == [n |-> 0, d |-> 1]

\* a number cell, held in thousandths, as a fraction
Value(cell) == Rat(cell.num, 1000)

\* round(x, 2) in hundredths: to the nearest, a tie to the even neighbour
Round2(x) ==
    LET q == (x.n * 100) \div x.d
        r == (x.n * 100) - q * x.d
    IN IF 2 * r > x.d THEN q + 1
       ELSE IF 2 * r = x.d /\ q % 2 = 1 THEN q + 1
       ELSE q

\* lines 50 and 77: flat_fee = 16.25 and flat_fee = 7.22, as fractions
FlatFeeF370 == Rat(1625, 100)
FlatFeeJ826 == Rat(722, 100)

\* line 54: the (material, column) pairs read for an F370 row
MaterialsF370 ==
    << <<matPCABSBLK, colABSincm3>>, <<matTPU92A, colTPU92A>>,
       <<matQSRsupport, colQSRsupport>> >>

\* lines 81-84: the pairs read for a J826 row; the columns bear the names of
\* the labels, "DraftGrey (g)" and so on
MaterialsJ826 ==
    << <<matDraftGrey, lblDraftGrey>>, <<matVeroUltraWhite, lblVeroUltraWhite>>,
       <<matVeroBlackPlus, lblVeroBlackPlus>>, <<matSUP706, lblSUP706>> >>

\* a volume test that lets negative volumes through
VolumeNonZero(cell) == cell # NaN /\ cell.num # 0

\* lines 57 and 87: pd.notna(volume) and volume > 0
VolumePositive(cell) == cell # NaN /\ cell.num > 0

\* lines 59 and 89: the key is in the table and its volume is truthy
\* (not None, not 0)
EntryUsable(table, key) ==
    /\ key \in DOMAIN table
    /\ table[key].volume # NoneValue
    /\ table[key].volume.num # 0

\* lines 60-61 and 90-91: volume * (cost / reference volume)
Contribution(table, key, cell) ==
    RatMul(Value(cell), Rat(table[key].cost.num, table[key].volume.num))

\* lines 55-61 and 85-91 for one (material, column) pair of a row
MaterialFee(table, printer, pair, frame, r) ==
    IF HasColumn(frame, pair[2])
          /\ VolumePositive(frame.rows[r][ColIndex(frame, pair[2])])
          /\ EntryUsable(table, <<printer, pair[1]>>)
    THEN Contribution(table, <<printer, pair[1]>>, frame.rows[r][ColIndex(frame, pair[2])])
    ELSE RatZero

\* the loop over the pairs: filament_fee starts at 0 and grows pair by pair
RECURSIVE FilamentFee(_, _, _, _, _, _)
FilamentFee(table, printer, pairs, frame, r, k) ==
    IF k = 0 THEN RatZero
    ELSE RatAdd(FilamentFee(table, printer, pairs, frame, r, k - 1),
                MaterialFee(table, printer, pairs[k], frame, r))

\* lines 64-71 and 94-101: one result row, fees in hundredths
ResultRow(job, printer, fee, flat, company) ==
    [print_job |-> job, printer_type |-> printer, filament_fee |-> Round2(fee),
     flat_fee |-> Round2(flat), total_fee |-> Round2(RatAdd(fee, flat)),
     company_name |-> company]

\* a numbering of the J826 rows by their own index, as the F370 rows are
JobNumberByIndex(res, idx) == idx + 1

\* line 95: len(results) + 1
JobNumberJ826(res, idx) == Len(res) + 1

\* line 65: idx + 1, idx the row's index label in the frame read from CSV
JobNumberF370(res, idx) == idx + 1

\* the price tables of the runs: all seven materials priced; a table with
\* reference volumes None and 0; the table parse_material_cost returns for
\* "F370; PC-ABS BLK; 1000 g; $50" and "J826; DraftGrey; ; $1,250", which
\* lacks the other materials
TablePool ==
    LET tableFull ==
            (<<prF370, matPCABSBLK>> :> [volume |-> Num(100000), cost |-> Num(50000)])
            @@ (<<prF370, matTPU92A>> :> [volume |-> Num(3000), cost |-> Num(1000)])
            @@ (<<prF370, matQSRsupport>> :> [volume |-> Num(1000), cost |-> Num(2000)])
            @@ (<<prJ826, matDraftGrey>> :> [volume |-> Num(1000000), cost |-> Num(250000)])
            @@ (<<prJ826, matVeroUltraWhite>> :> [volume |-> Num(1000), cost |-> Num(500)])
            @@ (<<prJ826, matVeroBlackPlus>> :> [volume |-> Num(1000), cost |-> Num(500)])
            @@ (<<prJ826, matSUP706>> :> [volume |-> Num(3000), cost |-> Num(1000)])
        tableUnusable ==
            (<<prF370, matPCABSBLK>> :> [volume |-> NoneValue, cost |-> Num(50000)])
            @@ (<<prF370, matTPU92A>> :> [volume |-> Num(0), cost |-> Num(1000)])
            @@ (<<prF370, matQSRsupport>> :> [volume |-> Num(1000), cost |-> Num(2000)])
            @@ (<<prJ826, matDraftGrey>> :> [volume |-> Num(0), cost |-> Num(250000)])
            @@ (<<prJ826, matSUP706>> :> [volume |-> NoneValue, cost |-> Num(1000)])
            @@ (<<prJ826, matVeroUltraWhite>> :> [volume |-> Num(1000), cost |-> Num(500)])
            @@ (<<prJ826, matVeroBlackPlus>> :> [volume |-> Num(1000), cost |-> Num(500)])
        lineABS ==
            PriceLine(prF370, matPCABSBLK, <<"1","0","0","0">>, <<"g">>, <<"5","0">>).text
        lineGrey ==
            PriceLine(prJ826, matDraftGrey, <<>>, <<>>, <<"1",",","2","5","0">>).text
        tableParsed ==
            Put(Put(<<>>, EntryKey(lineABS), Entry(lineABS)),
                EntryKey(lineGrey), Entry(lineGrey))
    IN <<tableFull, tableUnusable, tableParsed>>

RowSeqs(S, n) == UNION {[1..k -> S] : k \in 0..n}

\* Appended_Print_F370.csv: what the normalizer writes for a source file of
\* columns company, print time, ABS, TPU ("TPU in cm3") and support, or the
\* same rows kept under the column names line 54 reads
DatasetsF370(n) ==
    LET SourceColumnsF370 ==
            <<colCompany, colPrintTimeHmm, colABSincm3,
              <<"T","P","U"," ","i","n"," ","c","m","3">>, colSupportLower>>
        SourceRowsF370 ==
            { <<Str("Acme"), Str("1:30"), Num(10000), NaN, NaN>>,
              <<Str("Bolt"), Str("0:45"), NaN, Num(7000), Num(2000)>>,
              <<Str("Cog"), Str("2:00"), Num(0), Num(0 - 3000), Num(0)>> }
        LegacyColumnsF370 ==
            <<colPrintTime, colABSincm3, colTPU92A, colQSRsupport, colCompanyName>>
        Normalized(rows) == Select(Renamed([cols |-> SourceColumnsF370, rows |-> rows]))
    IN {CsvFrame(Normalized(rows)) : rows \in RowSeqs(SourceRowsF370, n)}
       \cup
       {[cols |-> LegacyColumnsF370, rows |-> Normalized(rows).rows] :
           rows \in RowSeqs(SourceRowsF370, n) \ {<<>>}}

\* Appended_Print_J826.csv: the rows convert_j826_file writes for three J826
\* files, under the columns of lines 56-63
DatasetsJ826(n) ==
    LET ColumnsJ826 ==
            <<colPrintTimeHmm, lblDraftGrey, lblVeroUltraWhite, lblVeroBlackPlus,
              lblSUP706, colCompanyName>>
        RowCellsJ826(row) ==
            <<Txt(row.print_time), row.draft_grey, row.vero_ultra_white,
              row.vero_black_plus, row.sup706, Txt(row.company_name)>>
        \* "3h 55m", "12.5", "abc"; "-5", "12.5", " 7 "; "12.5", "nan"
        KeyColumnsForCost ==
            { <<Txt(lblPrintTime), Txt(<<"3","h"," ","5","5","m">>),
                Txt(lblDraftGrey), Txt(<<"1","2",".","5">>),
                Txt(lblSUP706), Txt(<<"a","b","c">>)>>,
              <<Txt(lblVeroUltraWhite), Txt(<<"-","5">>),
                Txt(lblVeroBlackPlus), Txt(<<"1","2",".","5">>),
                Txt(lblSUP706), Txt(<<" ","7"," ">>)>>,
              <<Txt(lblVeroBlackPlus), Txt(<<"1","2",".","5">>),
                Txt(lblDraftGrey), Txt(<<"n","a","n">>)>> }
    IN {[cols |-> ColumnsJ826, rows |-> rows] :
           rows \in RowSeqs({RowCellsJ826(OutputRow(l)) : l \in KeyColumnsForCost}, n)}

CompanyOf(frame, r) == frame.rows[r][ColIndex(frame, colCompanyName)]

\* lines 47-71: one F370 row
CostRowF370 ==
    /\ cpc = "f370" /\ cidx < Len(f370_data.rows)
    /\ filament_fee' = FilamentFee(material_costs, prF370, MaterialsF370, f370_data,
                                   cidx + 1, Len(MaterialsF370))
    /\ results' = Append(results,
                         ResultRow(JobNumberF370(results, cidx), prF370, filament_fee',
                                   FlatFeeF370, CompanyOf(f370_data, cidx + 1)))
    /\ cidx' = cidx + 1
    /\ UNCHANGED <<material_costs, f370_data, j826_data, cpc,
                   matchVars, f370Vars, j826Vars, parseVars>>

\* the index of the J826 row the second loop is at
InSecondLoop == cpc = "j826" \/ (cpc = "f370" /\ cidx >= Len(f370_data.rows))
SecondIndex == IF cpc = "j826" THEN cidx ELSE 0

\* lines 74-101: one J826 row
CostRowJ826 ==
    /\ InSecondLoop /\ SecondIndex < Len(j826_data.rows)
    /\ filament_fee' = FilamentFee(material_costs, prJ826, MaterialsJ826, j826_data,
                                   SecondIndex + 1, Len(MaterialsJ826))
    /\ results' = Append(results,
                         ResultRow(JobNumberJ826(results, SecondIndex), prJ826,
                                   filament_fee', FlatFeeJ826,
                                   CompanyOf(j826_data, SecondIndex + 1)))
    /\ cidx' = SecondIndex + 1
    /\ cpc' = "j826"
    /\ UNCHANGED <<material_costs, f370_data, j826_data,
                   matchVars, f370Vars, j826Vars, parseVars>>

\* lines 103-108: the results are saved
CostSave ==
    /\ InSecondLoop /\ SecondIndex >= Len(j826_data.rows)
    /\ cpc' = "done"
    /\ UNCHANGED <<material_costs, f370_data, j826_data, results, cidx, filament_fee,
                   matchVars, f370Vars, j826Vars, parseVars>>

----------------------------------------------------------------------------
(* Idle values of the components a specification does not run *)

MatchIdle ==
    /\ columns = <<>>
    /\ keywords = <<>>
    /\ matched = None
    /\ mpc = "idle"

F370Idle ==
    /\ folder = <<>>
    /\ listing = <<>>
    /\ file_name = None
    /\ df = <<>>
    /\ fpos = 0
    /\ combined_df = <<>>
    /\ fpc = "idle"
    /\ run = 0
    /\ first_run = <<>>

J826Idle ==
    /\ jlines = <<>>
    /\ is_first_file = FALSE
    /\ appended_file = <<>>
    /\ output_df = <<>>
    /\ jpc = "idle"

ParseIdle ==
    /\ cost_lines = <<>>
    /\ ppos = 0
    /\ costs = <<>>
    /\ ppc = "idle"

CostIdle ==
    /\ material_costs = <<>>
    /\ f370_data = <<>>
    /\ j826_data = <<>>
    /\ results = <<>>
    /\ cidx = 0
    /\ filament_fee = <<>>
    /\ cpc = "idle"

----------------------------------------------------------------------------
(* Specification SpecMatch: find_matching_column on bounded column lists *)

\* the columns are distinct names of a pool of source headers; the keywords
\* are one of the five synonym lists
MatchInit ==
    LET ColumnPool ==
            {colCompany, colPrintTimeHmm, colSupportLower, colQSRsupport, colABSincm3,
             colPCABSBLK, colTPU92A,
             <<" ","C","O","M","P","A","N","Y"," ">>,
             <<"h",":","m","m">>,
             <<"Q","S","R">>,
             <<"M","o","d","e","l">>,
             <<"C","o","m","p","a","n","y"," ","P","r","i","n","t"," ","T","i","m","e">>}
    IN /\ columns \in DistinctSeqs(ColumnPool, MaxCols)
       /\ keywords \in {CompanyKeywords, PrintTimeKeywords, SupportKeywords,
                         ABSKeywords, TPUKeywords}
       /\ matched = None
       /\ mpc = "call"
       /\ F370Idle /\ J826Idle /\ ParseIdle /\ CostIdle

CallFindMatchingColumn ==
    /\ mpc = "call"
    /\ matched' = find_matching_column(columns, keywords)
    /\ mpc' = "returned"
    /\ UNCHANGED <<columns, keywords, f370Vars, j826Vars, parseVars, costVars>>

MatchNext == CallFindMatchingColumn

SpecMatch == MatchInit /\ [][MatchNext]_vars

\* C10 (as stated): none exactly when no column holds a keyword; otherwise a
\* column holding an earlier keyword is preferred to one holding only later
\* keywords, and among the columns holding that keyword the first is returned.
C10_KeywordPriority ==
    mpc = "returned" =>
        /\ (matched = None) <=>
              (\A i \in 1..Len(columns) : \A k \in 1..Len(keywords) :
                   ~KeywordMatches(keywords[k], columns[i]))
        /\ \A k \in 1..Len(keywords) :
              ( /\ \E i \in 1..Len(columns) : KeywordMatches(keywords[k], columns[i])
                /\ \A k2 \in 1..(k - 1) : \A i \in 1..Len(columns) :
                       ~KeywordMatches(keywords[k2], columns[i]) )
              => \E i \in 1..Len(columns) :
                    /\ matched = columns[i]
                    /\ KeywordMatches(keywords[k], columns[i])
                    /\ \A j \in 1..(i - 1) : ~KeywordMatches(keywords[k], columns[j])

\* C10 (amended): none exactly when no column holds a keyword; otherwise the
\* result is the earliest column that holds any keyword of the list, whatever
\* the position of that keyword in the list.
C10_FirstColumnWins ==
    mpc = "returned" =>
        /\ (matched = None) <=>
              (\A i \in 1..Len(columns) : \A k \in 1..Len(keywords) :
                   ~KeywordMatches(keywords[k], columns[i]))
        /\ matched # None =>
              \E i \in 1..Len(columns) :
                 /\ matched = columns[i]
                 /\ \E k \in 1..Len(keywords) : KeywordMatches(keywords[k], columns[i])
                 /\ \A j \in 1..(i - 1) : \A k \in 1..Len(keywords) :
                        ~KeywordMatches(keywords[k], columns[j])

\* a call where the first matching column holds only the later synonym while
\* a later column holds the earlier one
C10_Witness ==
    /\ mpc = "returned"
    /\ Len(keywords) = 2
    /\ matched # None
    /\ ~KeywordMatches(keywords[1], matched)
    /\ KeywordMatches(keywords[2], matched)
    /\ \E i \in 1..Len(columns) : KeywordMatches(keywords[1], columns[i])

----------------------------------------------------------------------------
(* Specification SpecF370: the F370 script run on a folder, then run again *)

F370Init ==
    /\ folder \in Folders(MaxFiles)
    /\ listing \in Listings(folder)
    /\ fpos = 1
    /\ file_name = None
    /\ df = NoFrame
    /\ combined_df = EmptyFrame
    /\ fpc = "loop"
    /\ run = 1
    /\ first_run = EmptyFrame
    /\ MatchIdle /\ J826Idle /\ ParseIdle /\ CostIdle

F370Next ==
    \/ IgnoreFile
    \/ ReadError
    \/ SkipNoCompany
    \/ SkipMissingCritical
    \/ AcceptFile
    \/ RaiseKeyError
    \/ FinishRun
    \/ RunAgain

SpecF370 == F370Init /\ [][F370Next]_vars

\* the rows the accepted files of a listing contribute, in listing order
RECURSIVE AcceptedRows(_, _, _)
AcceptedRows(f, l, i) ==
    IF i > Len(l) THEN <<>>
    ELSE (IF /\ IsF370Name(l[i])
             /\ f[l[i]].readable
             /\ Detected(f[l[i]].frame)
             /\ ~SelectRaises(Renamed(f[l[i]].frame))
          THEN Select(Renamed(f[l[i]].frame)).rows
          ELSE <<>>) \o AcceptedRows(f, l, i + 1)

\* C7: process_f370_files never aborts, and what it returns is the in-order
\* concatenation of the normalized rows of the accepted files; rejected files
\* contribute nothing and do not stop the files around them.
C7_NeverAbortsConcatenates ==
    /\ fpc # "raised"
    /\ (fpc = "done" /\ run = 1) =>
          combined_df.rows = AcceptedRows(folder, listing, 1)

\* C8: after a second run over the same folder the canonical dataset equals,
\* row for row, the dataset of the first run.
C8_RerunIdempotent ==
    (fpc = "done" /\ run = 2) => combined_df = first_run

\* the canonical cell the claim expects for a material column
ExpectedMaterial(src, col, r) ==
    IF col = None THEN Num(0)
    ELSE IF GetColumn(src, col)[r] = NaN THEN Num(0)
    ELSE GetColumn(src, col)[r]

\* C9: in every accepted file the canonical ABS (TPU) cell of a row is the
\* row's cell of the detected ABS-like (TPU-like) column, 0.0 when that column
\* is absent or the cell is missing, whatever the source column is named.
C9_MaterialCopied ==
    (fpc = "loop" /\ file_name # None /\ df.cols = required_columns) =>
        LET src == folder[file_name].frame
        IN \A r \in 1..Len(src.rows) :
              /\ df.rows[r][ColIndex(df, colPCABSBLK)] = ExpectedMaterial(src, AbsCol(src), r)
              /\ df.rows[r][ColIndex(df, colTPU92A)] = ExpectedMaterial(src, TpuCol(src), r)

----------------------------------------------------------------------------
(* Specification SpecJ826: one call of convert_j826_file *)

\* the output file is absent or holds one row of an earlier call
J826Init ==
    LET existingRow ==
            [print_time |-> <<"1",":","0","0">>, draft_grey |-> Num(1000),
             vero_ultra_white |-> Num(0), vero_black_plus |-> Num(0),
             sup706 |-> Num(2000), company_name |-> UnknownCompany]
    IN /\ jlines \in KeyColumns(MaxPairs)
       /\ is_first_file \in BOOLEAN
       /\ appended_file \in {NoFile, FileOf(<<existingRow>>)}
       /\ output_df = <<>>
       /\ jpc = "call"
       /\ MatchIdle /\ F370Idle /\ ParseIdle /\ CostIdle

J826Next ==
    \/ ConvertRaise
    \/ ConvertReturn

SpecJ826 == J826Init /\ [][J826Next]_vars

\* a text of the form "<X>h <Y>m": digits, "h", one blank, digits, "m"
IsDuration(s) ==
    \E i \in 2..(Len(s) - 3) :
        /\ s[i] = "h" /\ s[i + 1] = " " /\ s[Len(s)] = "m"
        /\ \A j \in 1..(i - 1) : IsDigit(s[j])
        /\ \A j \in (i + 2)..(Len(s) - 1) : IsDigit(s[j])

DurationHours(s) == SubSeq(s, 1, (CHOOSE i \in 1..Len(s) : s[i] = "h") - 1)
DurationMinutes(s) == SubSeq(s, (CHOOSE i \in 1..Len(s) : s[i] = "h") + 2, Len(s) - 1)

\* "X:YY", the minutes padded to two digits
CanonicalTime(s) ==
    DurationHours(s) \o <<":">> \o
        (IF Len(DurationMinutes(s)) < 2 THEN <<"0">> ELSE <<>>) \o DurationMinutes(s)

\* C4: a print time "<X>h <Y>m" becomes "X:YY" with the minutes zero-padded
\* and nothing else; any other text, and an absent 'Print Time' label,
\* becomes exactly "0:00".
C4_PrintTimeCanonical ==
    jpc = "returned" =>
        IF HasKey(jlines, lblPrintTime)
              /\ IsDuration(ValueAt(jlines, LastPair(jlines, lblPrintTime)).txt)
        THEN output_df[1].print_time =
                CanonicalTime(ValueAt(jlines, LastPair(jlines, lblPrintTime)).txt)
        ELSE output_df[1].print_time = ZeroTime

NumericLabels == <<lblDraftGrey, lblVeroUltraWhite, lblVeroBlackPlus, lblSUP706>>
NumericFields(row) ==
    <<row.draft_grey, row.vero_ultra_white, row.vero_black_plus, row.sup706>>

\* C6: convert_j826_file never raises, and each of the four numeric fields is a
\* non-negative number, 0 when its label is absent or its value is missing or
\* is not a number.
C6_NumericFieldsNonNegative ==
    /\ jpc # "raised"
    /\ jpc = "returned" =>
          \A f \in 1..4 :
             LET field == NumericFields(output_df[1])[f]
             IN /\ field # NaN
                /\ field.num >= 0
                /\ (~HasKey(jlines, NumericLabels[f])
                      \/ ValueAt(jlines, LastPair(jlines, NumericLabels[f])) = MissingCell
                      \/ ~IsDecimal(ValueAt(jlines, LastPair(jlines, NumericLabels[f])).txt))
                   => field = Num(0)

----------------------------------------------------------------------------
(* Specification SpecParse: parse_material_cost on bounded price files *)

ParseInit ==
    /\ cost_lines \in PriceFiles(MaxLines)
    /\ ppos = 1
    /\ costs = <<>>
    /\ ppc = "loop"
    /\ MatchIdle /\ F370Idle /\ J826Idle /\ CostIdle

ParseNext ==
    \/ SkipLine
    \/ IgnoreLine
    \/ StoreEntry
    \/ ParseRaise
    \/ ParseReturn

SpecParse == ParseInit /\ [][ParseNext]_vars

\* the entry the claim expects for a price line
ExpectedEntry(line) ==
    [volume |-> IF line.n = <<>> THEN NoneValue ELSE Num(DecimalValue(line.n)),
     cost |-> Num(DecimalValue(WithoutCommas(line.cost)))]

\* C5: a line "<printer>; <material>; <N> <unit>; $<cost>" is stored under
\* (printer, material) with reference_volume N and reference_cost <cost>
\* without its commas; an empty volume field gives reference_volume None.
\* (A later line of the same key replaces the entry.)
C5_PriceLineParsed ==
    ppc = "done" =>
        \A i \in 1..Len(cost_lines) :
            ( /\ cost_lines[i].priced
              /\ \A j \in (i + 1)..Len(cost_lines) :
                    cost_lines[j].priced =>
                        <<cost_lines[j].printer, cost_lines[j].material>>
                            # <<cost_lines[i].printer, cost_lines[i].material>> )
            => /\ <<cost_lines[i].printer, cost_lines[i].material>> \in DOMAIN costs
               /\ costs[<<cost_lines[i].printer, cost_lines[i].material>>]
                      = ExpectedEntry(cost_lines[i])

----------------------------------------------------------------------------
(* Specification SpecCost: calculate_costs on bounded datasets *)

CostInit ==
    /\ \E t \in 1..Len(TablePool) : material_costs = TablePool[t]
    /\ f370_data \in DatasetsF370(MaxJobs)
    /\ j826_data \in DatasetsJ826(MaxJobs)
    /\ results = <<>>
    /\ cidx = 0
    /\ filament_fee = RatZero
    /\ cpc = "f370"
    /\ MatchIdle /\ F370Idle /\ J826Idle /\ ParseIdle

CostNext ==
    \/ CostRowF370
    \/ CostRowJ826
    \/ CostSave

SpecCost == CostInit /\ [][CostNext]_vars

\* the row of its dataset the last result was computed from
LastIsF370 == results # <<>> /\ results[Len(results)].printer_type = prF370
LastIsJ826 == results # <<>> /\ results[Len(results)].printer_type = prJ826
LastRowF370 == Len(results)
LastRowJ826 == Len(results) - Len(f370_data.rows)

\* the fields of the canonical F370 record, as the normalizer names them
CanonicalFieldsF370 ==
    << <<matPCABSBLK, colPCABSBLK>>, <<matTPU92A, colTPU92A>>,
       <<matQSRsupport, colQSRsupport>> >>

\* value * reference_cost / reference_volume when the value is > 0 and the
\* table holds a usable entry, else nothing
DueFor(table, printer, pair, frame, r) ==
    LET cell == frame.rows[r][ColIndex(frame, pair[2])]
        key == <<printer, pair[1]>>
    IN IF /\ cell # NaN /\ cell.num > 0
          /\ key \in DOMAIN table
          /\ table[key].volume # NoneValue /\ table[key].volume.num # 0
       THEN RatMul(Rat(cell.num, 1000), Rat(table[key].cost.num, table[key].volume.num))
       ELSE RatZero

\* C1: for a record the F370 normalizer produced, the filament fee holds the
\* contribution value * reference_cost / reference_volume of each of its three
\* material fields (ABS, TPU, support) whose value is > 0 and whose price
\* entry has a usable reference volume: the engine reads the columns the
\* normalizer writes.
C1_NormalizedFieldsCharged ==
    (LastIsF370 /\ f370_data.cols = required_columns) =>
        filament_fee =
            RatAdd(RatAdd(DueFor(material_costs, prF370, CanonicalFieldsF370[1],
                                 f370_data, LastRowF370),
                          DueFor(material_costs, prF370, CanonicalFieldsF370[2],
                                 f370_data, LastRowF370)),
                   DueFor(material_costs, prF370, CanonicalFieldsF370[3],
                          f370_data, LastRowF370))

\* C2: n F370 rows and m J826 rows give exactly n+m result rows, the k-th row
\* with job id k: first the F370 rows in input order with flat fee 16.25,
\* then the J826 rows in input order with flat fee 7.22.
C2_JobNumbering ==
    cpc = "done" =>
        LET n == Len(f370_data.rows)
            m == Len(j826_data.rows)
        IN /\ Len(results) = n + m
           /\ \A k \in 1..Len(results) :
                 /\ results[k].print_job = k
                 /\ k <= n =>
                       /\ results[k].printer_type = prF370
                       /\ results[k].flat_fee = 1625
                       /\ results[k].company_name = CompanyOf(f370_data, k)
                 /\ k > n =>
                       /\ results[k].printer_type = prJ826
                       /\ results[k].flat_fee = 722
                       /\ results[k].company_name = CompanyOf(j826_data, k - n)

\* both families have rows, so the numbering crosses from one to the other
C2_Witness ==
    /\ cpc = "done"
    /\ Len(f370_data.rows) >= 2
    /\ Len(j826_data.rows) >= 1
    /\ results[Len(results)].print_job = Len(f370_data.rows) + Len(j826_data.rows)

\* the cases in which a material contributes nothing
Degenerate(table, printer, pair, frame, r) ==
    \/ ~HasColumn(frame, pair[2])
    \/ frame.rows[r][ColIndex(frame, pair[2])] = NaN
    \/ frame.rows[r][ColIndex(frame, pair[2])].num <= 0
    \/ <<printer, pair[1]>> \notin DOMAIN table
    \/ table[<<printer, pair[1]>>].volume = NoneValue
    \/ table[<<printer, pair[1]>>].volume.num = 0

\* the sum of the contributions of the materials that are not degenerate
RECURSIVE SumOfOthers(_, _, _, _, _, _)
SumOfOthers(table, printer, pairs, frame, r, S) ==
    IF S = {} THEN RatZero
    ELSE LET k == CHOOSE x \in S : TRUE
             cell == frame.rows[r][ColIndex(frame, pairs[k][2])]
             entry == table[<<printer, pairs[k][1]>>]
         IN RatAdd(RatMul(Rat(cell.num, 1000), Rat(entry.cost.num, entry.volume.num)),
                   SumOfOthers(table, printer, pairs, frame, r, S \ {k}))

NotDegenerate(table, printer, pairs, frame, r) ==
    {k \in 1..Len(pairs) : ~Degenerate(table, printer, pairs[k], frame, r)}

\* C3: a material whose volume field is missing, NaN, 0 or negative, or whose
\* price entry is absent or has reference volume None or 0, contributes
\* exactly 0; the fee is the sum of the other materials' contributions, no
\* division by zero is made, and the flat fee is unaffected.
C3_DegenerateContributesNothing ==
    /\ LastIsF370 =>
          /\ filament_fee =
                SumOfOthers(material_costs, prF370, MaterialsF370, f370_data, LastRowF370,
                    NotDegenerate(material_costs, prF370, MaterialsF370, f370_data,
                                  LastRowF370))
          /\ filament_fee.d > 0
          /\ results[Len(results)].flat_fee = 1625
          /\ results[Len(results)].total_fee = Round2(RatAdd(filament_fee, Rat(1625, 100)))
    /\ LastIsJ826 =>
          /\ filament_fee =
                SumOfOthers(material_costs, prJ826, MaterialsJ826, j826_data, LastRowJ826,
                    NotDegenerate(material_costs, prJ826, MaterialsJ826, j826_data,
                                  LastRowJ826))
          /\ filament_fee.d > 0
          /\ results[Len(results)].flat_fee = 722
          /\ results[Len(results)].total_fee = Round2(RatAdd(filament_fee, Rat(722, 100)))

\* a row with a negative volume, a positive volume whose price entry has no
\* reference volume, and a material that is charged
C3_Witness ==
    /\ LastIsJ826
    /\ filament_fee.n > 0
    /\ \E k \in 1..Len(MaterialsJ826) :
          LET cell == j826_data.rows[LastRowJ826][ColIndex(j826_data, MaterialsJ826[k][2])]
          IN cell # NaN /\ cell.num < 0
    /\ \E k \in 1..Len(MaterialsJ826) :
          LET cell == j826_data.rows[LastRowJ826][ColIndex(j826_data, MaterialsJ826[k][2])]
          IN /\ cell # NaN /\ cell.num > 0
             /\ <<prJ826, MaterialsJ826[k][1]>> \in DOMAIN material_costs
             /\ material_costs[<<prJ826, MaterialsJ826[k][1]>>].volume = NoneValue
====
